---- MODULE Spec2Model ----
(***************************************************************************)
(* Model of src/app.py: the shared telemetry store (SensorData), the MQTT  *)
(* ingestion callback on_message running on the paho network thread, and   *)
(* the Streamlit script body that every browser session reruns on its own  *)
(* thread.  on_message and the script body are modelled statement by       *)
(* statement; sensor_data.lock is a threading.Lock.                        *)
(***************************************************************************)
EXTENDS Integers, Sequences, FiniteSets, TLC

\* ------------------------------------------------------------------ bounds
\* History capacity.  src/app.py line 18 sets 5000; the model scales it down
\* so that eviction happens within the message budget.
MAX_ROWS == 2
\* Messages on_message records in one behaviour: one more than fit.
MaxMsgs == MAX_ROWS + 1

\* --------------------------------------------------------------- constants
\* "%f" of line 156 prints microseconds.
MicrosPerSecond == 1000000
\* The clock starts one microsecond before a second ends ...
ClockStart == MicrosPerSecond - 1
\* ... and shows these instants during a behaviour.
Instants == {ClockStart, ClockStart + 1}

\* ------------------------------------------------------------------ keys
SensorKeys ==
    <<"noise_db", "expansion_valve_outlet_temp", "condenser_inlet_temp",
      "ambient_temp", "humidity", "voltage", "current", "power">>

SensorKeySet == {SensorKeys[i] : i \in 1..Len(SensorKeys)}

PayloadKeys == SensorKeySet \cup {"water_outlet_temp"}

DataKeys == SensorKeySet \cup {"last_update", "count"}

\* The history column that on_message fills from each data key (lines 172-182).
HistoryColumn ==
    [k \in SensorKeySet |->
        CASE k = "noise_db" -> "Noise (dB)"
          [] k = "expansion_valve_outlet_temp" -> "Expansion Valve Outlet Temp (C)"
          [] k = "condenser_inlet_temp" -> "Condenser Inlet Temp (C)"
          [] k = "ambient_temp" -> "Ambient Temp (C)"
          [] k = "humidity" -> "Humidity (%)"
          [] k = "voltage" -> "Voltage (V)"
          [] k = "current" -> "Current (mA)"
          [] k = "power" -> "Power (mW)"]

HistoryColumns == {HistoryColumn[k] : k \in SensorKeySet} \cup {"Timestamp"}

\* ------------------------------------------------------------ JSON values
\* A decoded JSON value, tagged by its Python type.  A float is modelled by
\* an integer.  A str is a sequence of characters.
JNum(n) == [t |-> "num", v |-> n]
JBool(b) == [t |-> "bool", v |-> b]
JStr(s) == [t |-> "str", v |-> s]
JNull == [t |-> "null"]
JList == [t |-> "list"]
\* Top-level payloads: a JSON object is a dict; a JSON string or array is
\* described by the set of key names k for which the Python test
\* `k in payload` is true (substring, respectively element, test); any
\* other scalar (number, true, false, null) supports neither `in` nor [].
JObject(m) == [t |-> "dict", m |-> m]
JText(has) == [t |-> "text", has |-> has]
JArray(has) == [t |-> "array", has |-> has]
JScalar == [t |-> "scalar"]

\* A raw MQTT payload: bytes that are not UTF-8, text that is not JSON, or
\* the encoding of a JSON value.
BadUtf8 == [kind |-> "bad_utf8"]
BadJson == [kind |-> "bad_json"]
Encoded(v) == [kind |-> "json", value |-> v]

None == [t |-> "None"]

\* dict helpers
DictGet(m, k, d) == IF k \in DOMAIN m THEN m[k] ELSE d
DictSet(m, k, v) == [x \in (DOMAIN m) \cup {k} |-> IF x = k THEN v ELSE m[x]]

\* ---------------------------------------------------------------- float()
IsSpace(c) == c = " "
IsDigit(c) == c \in {"0", "1", "2", "3", "4", "5", "6", "7", "8", "9"}
DigitVal(c) ==
    CASE c = "0" -> 0 [] c = "1" -> 1 [] c = "2" -> 2 [] c = "3" -> 3
      [] c = "4" -> 4 [] c = "5" -> 5 [] c = "6" -> 6 [] c = "7" -> 7
      [] c = "8" -> 8 [] c = "9" -> 9

RECURSIVE LStrip(_)
LStrip(s) == IF s # <<>> /\ IsSpace(Head(s)) THEN LStrip(Tail(s)) ELSE s

RECURSIVE RStrip(_)
RStrip(s) ==
    IF s # <<>> /\ IsSpace(s[Len(s)]) THEN RStrip(SubSeq(s, 1, Len(s) - 1)) ELSE s

Strip(s) == RStrip(LStrip(s))

RECURSIVE DecimalValue(_)
DecimalValue(s) ==
    IF s = <<>> THEN 0
    ELSE 10 * DecimalValue(SubSeq(s, 1, Len(s) - 1)) + DigitVal(s[Len(s)])

\* float(str): surrounding whitespace is ignored, what is left must be a
\* numeral (here: a non-empty run of digits), otherwise ValueError.
StrIsNumeral(s) ==
    LET b == Strip(s) IN b # <<>> /\ \A i \in 1..Len(b) : IsDigit(b[i])

\* float(x) raises for None, a list or dict, and a string that is no numeral.
FloatRaises(x) ==
    \/ x.t \in {"null", "list"}
    \/ x.t = "str" /\ ~StrIsNumeral(x.v)

FloatOf(x) ==
    CASE x.t = "num" -> x.v
      [] x.t = "bool" -> (IF x.v THEN 1 ELSE 0)
      [] x.t = "str" -> DecimalValue(Strip(x.v))

\* a plausible slip: the except branch returns a sentinel instead of the default
safe_float_sentinel(x, default) ==
    IF x.t = "null" THEN default
    ELSE IF FloatRaises(x) THEN 0 - 1
    ELSE FloatOf(x)

safe_float(x, default) ==
    IF x.t = "null" THEN default
    ELSE IF FloatRaises(x) THEN default
    ELSE FloatOf(x)

\* ------------------------------------------------------------- timestamps
\* a plausible slip: a format that puts the sub-second part first
ts_for_history_fraction_first(now_dt) ==
    <<now_dt % MicrosPerSecond, now_dt \div MicrosPerSecond>>

\* now_dt is a count of microseconds.  "%Y-%m-%d %H:%M:%S.%f" keeps seconds and the
\* sub-second part; "%Y-%m-%d %H:%M:%S" keeps the seconds only.
ts_for_history(now_dt) == <<now_dt \div MicrosPerSecond, now_dt % MicrosPerSecond>>
ts_for_status(now_dt) == ToString(now_dt \div MicrosPerSecond)

\* ------------------------------------------------------------------ state
VARIABLES
    data,          \* sensor_data.data
    history,       \* sensor_data.history
    lock,          \* sensor_data.lock: "free" or the thread holding it
    clock,         \* the wall clock, in microseconds
    m_pc,          \* where the paho network thread is in on_message
    msg,           \* on_message: msg.payload
    payload,       \* on_message: payload
    now_dt,        \* on_message: now_dt
    field,         \* on_message: index of the next assignment of lines 160-167
    last_outcome,  \* how the previous on_message call ended
    client,        \* the paho client of start_mqtt: connection state, subscription
    session,       \* per browser session: script position and script locals
    accepted,      \* history entries appended since the last clear, in order
    recorded,      \* messages on_message has appended to the history so far
    stable         \* (data, history) as the last whole operation left them

store == <<data, history>>
ingest == <<m_pc, msg, payload, now_dt, field, last_outcome, client>>
ghost == <<accepted, recorded, stable>>
vars == <<data, history, lock, clock, m_pc, msg, payload, now_dt, field,
          last_outcome, client, session, accepted, recorded, stable>>

MQTT == "mqtt"
Sessions == {"s1"}

\* SensorData.__init__
SensorData ==
    [k \in DataKeys |->
        CASE k = "last_update" -> "Waiting..."
          [] k = "count" -> 0
          [] OTHER -> 0]

\* ------------------------------------------------------------ on_message
\* membership test `k in payload`
Contains(p, k) ==
    CASE p.t = "dict" -> k \in DOMAIN p.m
      [] p.t \in {"text", "array"} -> k \in p.has

\* paho calls on_message from loop_forever, one message at a time
Receive(raw) ==
    /\ m_pc = "loop"
    /\ client.subscribed
    /\ data["count"] < MaxMsgs
    /\ msg' = raw
    /\ m_pc' = "decode"
    /\ UNCHANGED <<store, lock, clock, payload, now_dt, field, last_outcome,
                   client, session, ghost>>

\* line 145: payload = json.loads(msg.payload.decode("utf-8"))
Decode ==
    /\ m_pc = "decode"
    /\ IF msg.kind = "json"
       THEN payload' = msg.value /\ m_pc' = "compat_water"
       ELSE payload' = payload /\ m_pc' = "except"
    /\ UNCHANGED <<store, lock, clock, msg, now_dt, field,
                   last_outcome, client, session, ghost>>

\* a plausible slip: the legacy key copied even when the canonical key is there
CompatWaterAlways ==
    /\ m_pc = "compat_water"
    /\ IF payload.t = "scalar"
       THEN payload' = payload /\ m_pc' = "except"
       ELSE IF Contains(payload, "water_outlet_temp")
       THEN IF payload.t = "dict"
            THEN /\ payload' = JObject(DictSet(payload.m, "expansion_valve_outlet_temp",
                                               payload.m["water_outlet_temp"]))
                 /\ m_pc' = "compat_condenser"
            ELSE payload' = payload /\ m_pc' = "except"
       ELSE payload' = payload /\ m_pc' = "compat_condenser"
    /\ UNCHANGED <<store, lock, clock, msg, now_dt, field, last_outcome, client, session, ghost>>

\* lines 148-149
CompatWater ==
    /\ m_pc = "compat_water"
    /\ IF payload.t = "scalar"
       THEN payload' = payload /\ m_pc' = "except"
       ELSE IF Contains(payload, "water_outlet_temp")
               /\ ~Contains(payload, "expansion_valve_outlet_temp")
       THEN IF payload.t = "dict"
            THEN /\ payload' = JObject(DictSet(payload.m, "expansion_valve_outlet_temp",
                                               payload.m["water_outlet_temp"]))
                 /\ m_pc' = "compat_condenser"
            ELSE payload' = payload /\ m_pc' = "except"
       ELSE payload' = payload /\ m_pc' = "compat_condenser"
    /\ UNCHANGED <<store, lock, clock, msg, now_dt, field,
                   last_outcome, client, session, ghost>>

\* lines 150-151
CompatCondenser ==
    /\ m_pc = "compat_condenser"
    /\ IF ~Contains(payload, "condenser_inlet_temp")
       THEN IF payload.t = "dict"
            THEN /\ payload' = JObject(DictSet(payload.m, "condenser_inlet_temp", JNum(0)))
                 /\ m_pc' = "stamp"
            ELSE payload' = payload /\ m_pc' = "except"
       ELSE payload' = payload /\ m_pc' = "stamp"
    /\ UNCHANGED <<store, lock, clock, msg, now_dt, field,
                   last_outcome, client, session, ghost>>

\* lines 155-157: datetime.now(SL_TZ); the clock does not run backwards
Stamp ==
    /\ m_pc = "stamp"
    /\ \E t \in {i \in Instants : i >= clock} : clock' = t /\ now_dt' = t
    /\ m_pc' = "acquire"
    /\ UNCHANGED <<store, lock, msg, payload, field, last_outcome,
                   client, session, ghost>>

\* line 159: with sensor_data.lock (enter)
Acquire ==
    /\ m_pc = "acquire"
    /\ lock = "free"
    /\ lock' = MQTT
    /\ field' = 1
    /\ m_pc' = "set_field"
    /\ UNCHANGED <<store, clock, msg, payload, now_dt, last_outcome,
                   client, session, ghost>>

\* a plausible slip: lock.acquire() and lock.release() without try/finally, so
\* that the AttributeError leaves the lock taken
SetFieldKeepsLock ==
    /\ m_pc = "set_field"
    /\ IF payload.t # "dict"
       THEN /\ m_pc' = "except"
            /\ UNCHANGED <<data, field>>
       ELSE /\ data' = [data EXCEPT ![SensorKeys[field]] =
                            safe_float(DictGet(payload.m, SensorKeys[field], JNum(0)), 0)]
            /\ IF field < Len(SensorKeys)
               THEN field' = field + 1 /\ m_pc' = m_pc
               ELSE field' = field /\ m_pc' = "set_last_update"
    /\ UNCHANGED <<history, lock, clock, msg, payload, now_dt, last_outcome,
                   client, session, ghost>>

\* lines 160-167, one assignment per step; payload.get raises AttributeError
\* when payload is no dict, and the with block then releases the lock
SetField ==
    /\ m_pc = "set_field"
    /\ IF payload.t # "dict"
       THEN /\ lock' = "free"
            /\ m_pc' = "except"
            /\ UNCHANGED <<data, field>>
       ELSE /\ data' = [data EXCEPT ![SensorKeys[field]] =
                            safe_float(DictGet(payload.m, SensorKeys[field], JNum(0)), 0)]
            /\ IF field < Len(SensorKeys)
               THEN field' = field + 1 /\ m_pc' = m_pc
               ELSE field' = field /\ m_pc' = "set_last_update"
            /\ lock' = lock
    /\ UNCHANGED <<history, clock, msg, payload, now_dt, last_outcome,
                   client, session, ghost>>

\* line 168
SetLastUpdate ==
    /\ m_pc = "set_last_update"
    /\ data' = [data EXCEPT !["last_update"] = ts_for_status(now_dt)]
    /\ m_pc' = "inc_count"
    /\ UNCHANGED <<history, lock, clock, msg, payload, now_dt, field,
                   last_outcome, client, session, ghost>>

\* line 169
IncCount ==
    /\ m_pc = "inc_count"
    /\ data' = [data EXCEPT !["count"] = @ + 1]
    /\ m_pc' = "append"
    /\ UNCHANGED <<history, lock, clock, msg, payload, now_dt, field,
                   last_outcome, client, session, ghost>>

\* the dict of lines 172-182
HistoryRow(d, now) ==
    [c \in HistoryColumns |->
        IF c = "Timestamp" THEN ts_for_history(now)
        ELSE d[CHOOSE k \in SensorKeySet : HistoryColumn[k] = c]]

\* lines 172-182
AppendRow ==
    /\ m_pc = "append"
    /\ history' = Append(history, HistoryRow(data, now_dt))
    /\ accepted' = Append(accepted, HistoryRow(data, now_dt))
    /\ recorded' = recorded + 1
    /\ m_pc' = "cap"
    /\ UNCHANGED <<data, lock, clock, msg, payload, now_dt, field,
                   last_outcome, client, session, stable>>

\* a plausible slip: history[:MAX_ROWS] keeps the oldest rows
FirstRows(h, n) == IF Len(h) > n THEN SubSeq(h, 1, n) ELSE h

\* history[-MAX_ROWS:]
LastRows(h, n) == IF Len(h) > n THEN SubSeq(h, Len(h) - n + 1, Len(h)) ELSE h

\* a plausible slip: the cap drops the newest rows
CapKeepsOldest(h) == IF Len(h) > MAX_ROWS THEN FirstRows(h, MAX_ROWS) ELSE h

\* a plausible slip: the bound compared off by one
CapOffByOne(h) == IF Len(h) > MAX_ROWS + 1 THEN LastRows(h, MAX_ROWS) ELSE h

\* lines 185-186
Cap(h) == IF Len(h) > MAX_ROWS THEN LastRows(h, MAX_ROWS) ELSE h

CapHistory ==
    /\ m_pc = "cap"
    /\ history' = Cap(history)
    /\ m_pc' = "print"
    /\ UNCHANGED <<data, lock, clock, msg, payload, now_dt, field,
                   last_outcome, client, session, ghost>>

\* line 188: print, still inside the with block
PrintCount ==
    /\ m_pc = "print"
    /\ m_pc' = "release"
    /\ UNCHANGED <<store, lock, clock, msg, payload, now_dt, field,
                   last_outcome, client, session, ghost>>

\* line 159: with sensor_data.lock (exit), and return to loop_forever
Release ==
    /\ m_pc = "release"
    /\ lock' = "free"
    /\ stable' = [data |-> data, history |-> history]
    /\ last_outcome' = "recorded"
    /\ m_pc' = "loop"
    /\ msg' = None /\ payload' = None /\ now_dt' = 0 /\ field' = 0
    /\ UNCHANGED <<store, clock, client, session, accepted, recorded>>

\* a plausible slip: except ValueError, which lets the TypeError and the
\* AttributeError of a JSON value that is no object end the network thread
ExceptOnlyValueError ==
    /\ m_pc = "except"
    /\ last_outcome' = "dropped"
    /\ m_pc' = IF msg.kind = "json" THEN "dead" ELSE "loop"
    /\ msg' = None /\ payload' = None /\ now_dt' = 0 /\ field' = 0
    /\ UNCHANGED <<store, lock, clock, client, session, ghost>>

\* lines 190-191: except Exception, print, and return to loop_forever
Except ==
    /\ m_pc = "except"
    /\ last_outcome' = "dropped"
    /\ m_pc' = "loop"
    /\ msg' = None /\ payload' = None /\ now_dt' = 0 /\ field' = 0
    /\ UNCHANGED <<store, lock, clock, client, session, ghost>>

on_message ==
    \/ Decode
    \/ CompatWater
    \/ CompatCondenser
    \/ Stamp
    \/ Acquire
    \/ SetField
    \/ SetLastUpdate
    \/ IncCount
    \/ AppendRow
    \/ CapHistory
    \/ PrintCount
    \/ Release
    \/ Except

\* ---------------------------------------------------------- the connection
\* client.state: "none" before start_mqtt has run, "connecting" from
\* client.connect (or a reconnect of loop_forever) until the broker answers,
\* "connected" after a CONNACK with code 0, "refused" after any other CONNACK,
\* "lost" after the connection broke.  client.subscribed: the broker holds a
\* subscription for this connection; the session is a clean one, so the
\* subscription ends with the connection.  client.connected_once: on_connect
\* has been called with code 0 at least once.
NoClient == [state |-> "none", subscribed |-> FALSE, connected_once |-> FALSE]

\* CONNACK return codes: accepted, not authorised.
ConnectCodes == {0, 5}

\* a plausible slip: subscribe called whatever the return code
on_connect_always_subscribes(rc) ==
    /\ m_pc = "loop"
    /\ client.state = "connecting"
    /\ client' = IF rc = 0
                 THEN [state |-> "connected", subscribed |-> TRUE, connected_once |-> TRUE]
                 ELSE [client EXCEPT !.state = "refused", !.subscribed = TRUE]
    /\ UNCHANGED <<store, lock, clock, m_pc, msg, payload, now_dt, field,
                   last_outcome, session, ghost>>

\* lines 135-140, called by loop_forever when the broker answers a connect
on_connect(rc) ==
    /\ m_pc = "loop"
    /\ client.state = "connecting"
    /\ client' = IF rc = 0
                 THEN [state |-> "connected", subscribed |-> TRUE, connected_once |-> TRUE]
                 ELSE [client EXCEPT !.state = "refused"]
    /\ UNCHANGED <<store, lock, clock, m_pc, msg, payload, now_dt, field,
                   last_outcome, session, ghost>>

\* loop_forever notices that the connection broke
ConnectionLost ==
    /\ m_pc = "loop"
    /\ client.state = "connected"
    /\ client' = [client EXCEPT !.state = "lost", !.subscribed = FALSE]
    /\ UNCHANGED <<store, lock, clock, m_pc, msg, payload, now_dt, field,
                   last_outcome, session, ghost>>

\* loop_forever connects again after a refusal or a loss
Reconnect ==
    /\ m_pc = "loop"
    /\ client.state \in {"refused", "lost"}
    /\ client' = [client EXCEPT !.state = "connecting"]
    /\ UNCHANGED <<store, lock, clock, m_pc, msg, payload, now_dt, field,
                   last_outcome, session, ghost>>

\* -------------------------------------------------------- the script body
\* Script locals of a session before the script assigns them.  authenticated,
\* username and password are the keys of st.session_state ("absent" while
\* the key is not set), which outlive the run; df is the history copy the run
\* holds (df, df_graph or df_history); cleared tells that another session
\* cleared the history since this run read history_len.
FreshLocals ==
    [pc |-> "rerun", authenticated |-> "absent",
     username |-> "absent", password |-> "absent",
     current |-> None, history_len |-> 0,
     df |-> <<>>, p_bearings |-> 0, p_radiator |-> 0,
     bearing_status |-> "", radiator_status |-> "", faults |-> 0, banner |-> "",
     cleared |-> FALSE]

\* A session whose user has logged in, before its next run.
LoggedIn == [FreshLocals EXCEPT !.authenticated = "True"]

\* hashlib.sha256(s.encode()).hexdigest(): distinct strings, distinct digests
sha256(s) == <<"sha256", s>>

\* lines 34-36
USERS == [u \in {"admin"} |-> sha256("Admin123!")]

\* What a user may type into the two text inputs.
Usernames == {"admin", "guest"}
Passwords == {"Admin123!", "admin"}

\* st.session_state.get(key, "")
StateGet(v) == IF v = "absent" THEN "" ELSE v

\* lines 38-48: the value stored under "authenticated"
credentials_entered(username, password) ==
    IF StateGet(username) \in DOMAIN USERS
       /\ sha256(StateGet(password)) = USERS[StateGet(username)]
    THEN "True" ELSE "False"

\* The graph view needs more than this many rows.  Line 341 has 5; the model
\* scales it with MAX_ROWS.
GraphMinRows == 1

\* What the classifiers' predict may return (an opaque capability).
ClassifierOutputs == {0, 1}

\* Streamlit starts a run of the script for session r, with fresh locals:
\* after a click on a button or after st.rerun().
Rerun(r) ==
    /\ session[r].pc = "rerun"
    /\ session' = [session EXCEPT ![r] =
            [FreshLocals EXCEPT !.pc = "check_credentials",
                                !.authenticated = session[r].authenticated,
                                !.username = session[r].username,
                                !.password = session[r].password]]
    /\ UNCHANGED <<store, lock, clock, ingest, ghost>>

\* a plausible slip: the elif of line 62 missing, so that any stored flag passes
check_credentials_key_only(r) ==
    /\ session[r].pc = "check_credentials"
    /\ session' = [session EXCEPT ![r].pc =
            IF session[r].authenticated = "absent" THEN "login" ELSE "logout"]
    /\ UNCHANGED <<store, lock, clock, ingest, ghost>>

\* lines 50-80: the login screen and st.stop() unless the flag is True
check_credentials(r) ==
    /\ session[r].pc = "check_credentials"
    /\ session' = [session EXCEPT ![r].pc =
            IF session[r].authenticated = "True" THEN "logout" ELSE "login"]
    /\ UNCHANGED <<store, lock, clock, ingest, ghost>>

\* lines 57 and 70: the Login button calls credentials_entered, which pops
\* the two keys when it accepts them; then the script runs again
Login(r) ==
    /\ session[r].pc = "login"
    /\ LET flag == credentials_entered(session[r].username, session[r].password)
       IN session' = [session EXCEPT
            ![r].authenticated = flag,
            ![r].username = IF flag = "True" THEN "absent" ELSE @,
            ![r].password = IF flag = "True" THEN "absent" ELSE @,
            ![r].pc = "rerun"]
    /\ UNCHANGED <<store, lock, clock, ingest, ghost>>

\* lines 55-56 and 68-69: the user fills in the text inputs, the script runs
\* again
TextInput(r, username, password) ==
    /\ session[r].pc = "login"
    /\ session' = [session EXCEPT ![r].username = username,
                                  ![r].password = password,
                                  ![r].pc = "rerun"]
    /\ UNCHANGED <<store, lock, clock, ingest, ghost>>

\* lines 85-87: the Logout button
Logout(r, clicked) ==
    /\ session[r].pc = "logout"
    /\ session' = IF clicked
                  THEN [session EXCEPT ![r].authenticated = "False", ![r].pc = "rerun"]
                  ELSE [session EXCEPT ![r].pc = "start_mqtt"]
    /\ UNCHANGED <<store, lock, clock, ingest, ghost>>

\* lines 194-209 behind st.cache_resource: the first call connects and starts
\* the network thread, every later call returns the cached client
start_mqtt(r) ==
    /\ session[r].pc = "start_mqtt"
    /\ client' = IF client.state = "none"
                 THEN [client EXCEPT !.state = "connecting"]
                 ELSE client
    /\ session' = [session EXCEPT ![r].pc = "snap_acquire"]
    /\ UNCHANGED <<store, lock, clock, m_pc, msg, payload, now_dt, field,
                   last_outcome, ghost>>

\* a plausible slip: the snapshot read without taking the lock
SnapAcquireNoLock(r) ==
    /\ session[r].pc = "snap_acquire"
    /\ session' = [session EXCEPT ![r].pc = "snap_copy"]
    /\ UNCHANGED <<store, lock, clock, ingest, ghost>>

\* line 247: with sensor_data.lock (enter)
SnapAcquire(r) ==
    /\ session[r].pc = "snap_acquire"
    /\ lock = "free"
    /\ lock' = r
    /\ session' = [session EXCEPT ![r].pc = "snap_copy"]
    /\ UNCHANGED <<store, clock, ingest, ghost>>

\* line 248: current = sensor_data.data.copy()
SnapCopy(r) ==
    /\ session[r].pc = "snap_copy"
    /\ session' = [session EXCEPT ![r].current = data, ![r].pc = "snap_len"]
    /\ UNCHANGED <<store, lock, clock, ingest, ghost>>

\* line 249: history_len = len(sensor_data.history)
SnapLen(r) ==
    /\ session[r].pc = "snap_len"
    /\ session' = [session EXCEPT ![r].history_len = Len(history),
                                  ![r].cleared = FALSE,
                                  ![r].pc = "snap_release"]
    /\ UNCHANGED <<store, lock, clock, ingest, ghost>>

\* line 247: with sensor_data.lock (exit)
SnapRelease(r) ==
    /\ session[r].pc = "snap_release"
    /\ lock' = "free"
    /\ session' = [session EXCEPT ![r].pc = "controls"]
    /\ UNCHANGED <<store, clock, ingest, ghost>>

\* lines 259-272.  button is the button this run was started by, if any
\* (st.button returns True for it): Refresh reruns, Clear clears and reruns,
\* otherwise the CSV export copies the history when the snapshot saw any
Controls(r, button) ==
    /\ session[r].pc = "controls"
    /\ session' = [session EXCEPT ![r].pc =
            CASE button = "refresh" -> "rerun"
              [] button = "clear" -> "clear_acquire"
              [] OTHER -> IF session[r].history_len > 0 THEN "csv_acquire"
                          ELSE "predict"]
    /\ UNCHANGED <<store, lock, clock, ingest, ghost>>

\* line 268: with sensor_data.lock (enter)
ClearAcquire(r) ==
    /\ session[r].pc = "clear_acquire"
    /\ lock = "free"
    /\ lock' = r
    /\ session' = [session EXCEPT ![r].pc = "clear"]
    /\ UNCHANGED <<store, clock, ingest, ghost>>

\* a plausible slip: Clear also resets the message counter
ClearHistoryResetsCount(r) ==
    /\ session[r].pc = "clear"
    /\ history' = <<>>
    /\ data' = [data EXCEPT !["count"] = 0]
    /\ accepted' = <<>>
    /\ session' = [q \in DOMAIN session |->
            IF q = r THEN [session[q] EXCEPT !.pc = "clear_release"]
            ELSE [session[q] EXCEPT !.cleared = TRUE]]
    /\ UNCHANGED <<lock, clock, ingest, recorded, stable>>

\* a plausible slip: Clear keeps the newest row
ClearHistoryKeepsNewest(r) ==
    /\ session[r].pc = "clear"
    /\ history' = IF history = <<>> THEN <<>> ELSE <<history[Len(history)]>>
    /\ accepted' = <<>>
    /\ session' = [q \in DOMAIN session |->
            IF q = r THEN [session[q] EXCEPT !.pc = "clear_release"]
            ELSE [session[q] EXCEPT !.cleared = TRUE]]
    /\ UNCHANGED <<data, lock, clock, ingest, recorded, stable>>

\* line 269: sensor_data.history.clear()
ClearHistory(r) ==
    /\ session[r].pc = "clear"
    /\ history' = <<>>
    /\ accepted' = <<>>
    /\ session' = [q \in DOMAIN session |->
            IF q = r THEN [session[q] EXCEPT !.pc = "clear_release"]
            ELSE [session[q] EXCEPT !.cleared = TRUE]]
    /\ UNCHANGED <<data, lock, clock, ingest, recorded, stable>>

\* lines 268-270: with sensor_data.lock (exit), st.rerun()
ClearRelease(r) ==
    /\ session[r].pc = "clear_release"
    /\ lock' = "free"
    /\ stable' = [data |-> data, history |-> history]
    /\ session' = [session EXCEPT ![r].pc = "rerun"]
    /\ UNCHANGED <<store, clock, ingest, accepted, recorded>>

\* line 273: with sensor_data.lock (enter)
CsvAcquire(r) ==
    /\ session[r].pc = "csv_acquire"
    /\ lock = "free"
    /\ lock' = r
    /\ session' = [session EXCEPT ![r].pc = "csv_copy"]
    /\ UNCHANGED <<store, clock, ingest, ghost>>

\* line 274: df = pd.DataFrame(sensor_data.history.copy())
CsvCopy(r) ==
    /\ session[r].pc = "csv_copy"
    /\ session' = [session EXCEPT ![r].df = history, ![r].pc = "csv_release"]
    /\ UNCHANGED <<store, lock, clock, ingest, ghost>>

\* line 273: with sensor_data.lock (exit)
CsvRelease(r) ==
    /\ session[r].pc = "csv_release"
    /\ lock' = "free"
    /\ session' = [session EXCEPT ![r].pc = "csv_render"]
    /\ UNCHANGED <<store, clock, ingest, ghost>>

\* lines 275-276: df.to_csv, st.download_button; df is not read afterwards
CsvRender(r) ==
    /\ session[r].pc = "csv_render"
    /\ session' = [session EXCEPT ![r].df = <<>>, ![r].pc = "predict"]
    /\ UNCHANGED <<store, lock, clock, ingest, ghost>>

\* a plausible slip: the comparison inverted
StatusInverted(p) == IF p = 0 THEN "Fault" ELSE "Normal"

\* lines 319 and 324
Status(p) == IF p = 0 THEN "Normal" ELSE "Fault"

\* lines 330-334
Banner(faults) == IF faults = 0 THEN "success" ELSE "warning"

\* lines 306-334: both classifiers answer; current is not read afterwards
Predict(r, pb, pr) ==
    /\ session[r].pc = "predict"
    /\ session' = [session EXCEPT ![r].current = None,
                                  ![r].p_bearings = pb,
                                  ![r].p_radiator = pr,
                                  ![r].bearing_status = Status(pb),
                                  ![r].radiator_status = Status(pr),
                                  ![r].faults = pb + pr,
                                  ![r].banner = Banner(pb + pr),
                                  ![r].pc = "graph"]
    /\ UNCHANGED <<store, lock, clock, ingest, ghost>>

\* a plausible slip: no try/except around the predict calls, so that the
\* exception ends the run before the history views and the sleep
PredictRaisesUncaught(r) ==
    /\ session[r].pc = "predict"
    /\ session' = [session EXCEPT ![r].current = None, ![r].pc = "ended"]
    /\ UNCHANGED <<store, lock, clock, ingest, ghost>>

\* lines 312-314, 336-337: a predict call raises, st.error reports it
PredictRaises(r) ==
    /\ session[r].pc = "predict"
    /\ session' = [session EXCEPT ![r].current = None,
                                  ![r].banner = "error", ![r].pc = "graph"]
    /\ UNCHANGED <<store, lock, clock, ingest, ghost>>

\* The locals of line 312-334 are not read after the predictions are shown.
ForgetPredictions(l) ==
    [l EXCEPT !.p_bearings = 0, !.p_radiator = 0, !.bearing_status = "",
              !.radiator_status = "", !.faults = 0, !.banner = ""]

\* line 406: the historical table copies the history when the snapshot saw any
TableOrSleep(l) == IF l.history_len > 0 THEN "table_acquire" ELSE "sleep"

\* line 341: the graph view copies the history when the snapshot saw enough
Graph(r) ==
    /\ session[r].pc = "graph"
    /\ session' = [session EXCEPT ![r] =
            [ForgetPredictions(session[r]) EXCEPT !.pc =
                IF session[r].history_len > GraphMinRows THEN "graph_acquire"
                ELSE TableOrSleep(session[r])]]
    /\ UNCHANGED <<store, lock, clock, ingest, ghost>>

\* line 342: with sensor_data.lock (enter)
GraphAcquire(r) ==
    /\ session[r].pc = "graph_acquire"
    /\ lock = "free"
    /\ lock' = r
    /\ session' = [session EXCEPT ![r].pc = "graph_copy"]
    /\ UNCHANGED <<store, clock, ingest, ghost>>

\* line 343: df_graph = pd.DataFrame(sensor_data.history.copy())
GraphCopy(r) ==
    /\ session[r].pc = "graph_copy"
    /\ session' = [session EXCEPT ![r].df = history, ![r].pc = "graph_release"]
    /\ UNCHANGED <<store, lock, clock, ingest, ghost>>

\* line 342: with sensor_data.lock (exit)
GraphRelease(r) ==
    /\ session[r].pc = "graph_release"
    /\ lock' = "free"
    /\ session' = [session EXCEPT ![r].pc = "graph_sort"]
    /\ UNCHANGED <<store, clock, ingest, ghost>>

\* Timestamp strings of one format compare as their (second, microsecond) pairs
TsLeq(a, b) == a[1] < b[1] \/ (a[1] = b[1] /\ a[2] <= b[2])

\* insert row x into the sorted rows, after the rows that are not later
RECURSIVE InsertByTimestamp(_, _)
InsertByTimestamp(rows, x) ==
    IF rows = <<>> THEN <<x>>
    ELSE IF TsLeq(rows[Len(rows)]["Timestamp"], x["Timestamp"]) THEN Append(rows, x)
    ELSE Append(InsertByTimestamp(SubSeq(rows, 1, Len(rows) - 1), x), rows[Len(rows)])

\* df.sort_values("Timestamp").reset_index(drop=True)
RECURSIVE sort_values(_)
sort_values(df) ==
    IF df = <<>> THEN <<>>
    ELSE InsertByTimestamp(sort_values(SubSeq(df, 1, Len(df) - 1)), df[Len(df)])

\* lines 346-347: an empty frame has no Timestamp column and is left alone
GraphSort(r) ==
    /\ session[r].pc = "graph_sort"
    /\ session' = [session EXCEPT ![r].df = sort_values(session[r].df),
                                  ![r].pc = "graph_render"]
    /\ UNCHANGED <<store, lock, clock, ingest, ghost>>

\* lines 349-398: the charts; df_graph is not read afterwards
GraphRender(r) ==
    /\ session[r].pc = "graph_render"
    /\ session' = [session EXCEPT ![r].df = <<>>,
                                  ![r].pc = TableOrSleep(session[r])]
    /\ UNCHANGED <<store, lock, clock, ingest, ghost>>

\* line 407: with sensor_data.lock (enter)
TableAcquire(r) ==
    /\ session[r].pc = "table_acquire"
    /\ lock = "free"
    /\ lock' = r
    /\ session' = [session EXCEPT ![r].pc = "table_copy"]
    /\ UNCHANGED <<store, clock, ingest, ghost>>

\* a plausible slip: the copy cut to the rows the snapshot counted
TableCopyCounted(r) ==
    /\ session[r].pc = "table_copy"
    /\ session' = [session EXCEPT ![r].df = LastRows(history, session[r].history_len),
                                  ![r].pc = "table_release"]
    /\ UNCHANGED <<store, lock, clock, ingest, ghost>>

\* line 408: df_history = pd.DataFrame(sensor_data.history.copy())
TableCopy(r) ==
    /\ session[r].pc = "table_copy"
    /\ session' = [session EXCEPT ![r].df = history, ![r].pc = "table_release"]
    /\ UNCHANGED <<store, lock, clock, ingest, ghost>>

\* line 407: with sensor_data.lock (exit)
TableRelease(r) ==
    /\ session[r].pc = "table_release"
    /\ lock' = "free"
    /\ session' = [session EXCEPT ![r].pc = "table_render"]
    /\ UNCHANGED <<store, clock, ingest, ghost>>

\* lines 410-439: the table and its caption; df_history is not read afterwards
TableRender(r) ==
    /\ session[r].pc = "table_render"
    /\ session' = [session EXCEPT ![r].df = <<>>, ![r].pc = "sleep"]
    /\ UNCHANGED <<store, lock, clock, ingest, ghost>>

\* lines 444-445: time.sleep(4); st.rerun()
Sleep(r) ==
    /\ session[r].pc = "sleep"
    /\ session' = [session EXCEPT ![r].pc = "rerun"]
    /\ UNCHANGED <<store, lock, clock, ingest, ghost>>

Script(r) ==
    \/ Rerun(r)
    \/ check_credentials(r)
    \/ Login(r)
    \/ \E username \in Usernames, password \in Passwords :
           TextInput(r, username, password)
    \/ \E clicked \in BOOLEAN : Logout(r, clicked)
    \/ start_mqtt(r)
    \/ SnapAcquire(r)
    \/ SnapCopy(r)
    \/ SnapLen(r)
    \/ SnapRelease(r)
    \/ \E button \in {"none", "refresh", "clear"} : Controls(r, button)
    \/ ClearAcquire(r)
    \/ ClearHistory(r)
    \/ ClearRelease(r)
    \/ CsvAcquire(r)
    \/ CsvCopy(r)
    \/ CsvRelease(r)
    \/ CsvRender(r)
    \/ \E pb \in ClassifierOutputs, pr \in ClassifierOutputs : Predict(r, pb, pr)
    \/ PredictRaises(r)
    \/ Graph(r)
    \/ GraphAcquire(r)
    \/ GraphCopy(r)
    \/ GraphRelease(r)
    \/ GraphSort(r)
    \/ GraphRender(r)
    \/ TableAcquire(r)
    \/ TableCopy(r)
    \/ TableRelease(r)
    \/ TableRender(r)
    \/ Sleep(r)

\* ------------------------------------------------------------------ inputs
\* A full frame: every sensor key carries the number v.
FullFrame(v) == JObject([k \in SensorKeySet |-> JNum(v)])
\* A heartbeat frame: an object with none of the sensor keys.
HeartbeatFrame == JObject([k \in {} |-> JNum(0)])

\* Messages of the store specification: a full frame, a heartbeat, and one
\* payload for each way decoding fails.
StoreMessages ==
    {Encoded(FullFrame(1)), Encoded(HeartbeatFrame),
     BadUtf8, BadJson, Encoded(JScalar),
     Encoded(JText({})), Encoded(JArray({"condenser_inlet_temp"}))}

\* ------------------------------------------------------------ specification
Init ==
    /\ data = SensorData
    /\ history = <<>>
    /\ lock = "free"
    /\ clock = ClockStart
    /\ m_pc = "loop"
    /\ msg = None
    /\ payload = None
    /\ now_dt = 0
    /\ field = 0
    /\ last_outcome = "none"
    /\ client = NoClient
    /\ session = [r \in Sessions |-> FreshLocals]
    /\ accepted = <<>>
    /\ recorded = 0
    /\ stable = [data |-> SensorData, history |-> <<>>]

\* The connection of this specification, once made, stays: Reconnect follows
\* a refusal only.
Next ==
    \/ \E rc \in ConnectCodes : on_connect(rc)
    \/ Reconnect
    \/ \E raw \in StoreMessages : Receive(raw)
    \/ on_message
    \/ \E r \in Sessions : Script(r)

Spec == Init /\ [][Next]_vars

\* ------------------------------------------- the normalisation specification
\* Values a payload key may carry.
FieldValues ==
    {JNum(5), JNull, JList, JBool(TRUE),
     JStr(<<" ", "7">>), JStr(<<"7", "x">>), JStr(<<>>)}

\* Keys a payload of the normalisation specification carries at most.
MaxKeys == 2

\* JSON objects over the payload keys.
NormPayloads ==
    UNION {[d -> FieldValues] : d \in {x \in SUBSET PayloadKeys : Cardinality(x) <= MaxKeys}}

NormMessages ==
    {Encoded(JObject(m)) : m \in NormPayloads}
        \cup {Encoded(JText({})), Encoded(JArray({"condenser_inlet_temp"}))}

\* The client after the broker accepted the connection and on_connect ran.
Subscribed == [state |-> "connected", subscribed |-> TRUE, connected_once |-> TRUE]

\* on_message is called once, on a fresh store, with any of the messages.
InitNorm ==
    /\ data = SensorData
    /\ history = <<>>
    /\ lock = "free"
    /\ clock = ClockStart
    /\ m_pc = "decode"
    /\ msg \in NormMessages
    /\ payload = None
    /\ now_dt = 0
    /\ field = 0
    /\ last_outcome = "none"
    /\ client = Subscribed
    /\ session = [r \in Sessions |-> LoggedIn]
    /\ accepted = <<>>
    /\ recorded = 0
    /\ stable = [data |-> SensorData, history |-> <<>>]

NextNorm == on_message

SpecNorm == InitNorm /\ [][NextNorm]_vars

\* ---------------------------------------------- the connection specification
\* The client as start_mqtt leaves it: client.connect has returned, the
\* network thread runs, the broker has not answered yet.
Connecting == [state |-> "connecting", subscribed |-> FALSE, connected_once |-> FALSE]

\* The state after the first logged-in run has called start_mqtt; the
\* sessions take no further step in this specification.
InitConn ==
    /\ data = SensorData
    /\ history = <<>>
    /\ lock = "free"
    /\ clock = ClockStart
    /\ m_pc = "loop"
    /\ msg = None
    /\ payload = None
    /\ now_dt = 0
    /\ field = 0
    /\ last_outcome = "none"
    /\ client = Connecting
    /\ session = [r \in Sessions |-> LoggedIn]
    /\ accepted = <<>>
    /\ recorded = 0
    /\ stable = [data |-> SensorData, history |-> <<>>]

NextConn ==
    \/ \E rc \in ConnectCodes : on_connect(rc)
    \/ ConnectionLost
    \/ Reconnect
    \/ \E raw \in StoreMessages : Receive(raw)
    \/ on_message

SpecConn == InitConn /\ [][NextConn]_vars

\* --------------------------------------------- the two-session specification
\* A viewer, and another session whose user presses Clear.
Viewer == "s1"
Clearer == "s2"

\* A run of the script of a logged-in session with no button pressed.
Poll(r) ==
    \/ Rerun(r)
    \/ check_credentials(r)
    \/ Logout(r, FALSE)
    \/ start_mqtt(r)
    \/ SnapAcquire(r)
    \/ SnapCopy(r)
    \/ SnapLen(r)
    \/ SnapRelease(r)
    \/ Controls(r, "none")
    \/ CsvAcquire(r)
    \/ CsvCopy(r)
    \/ CsvRelease(r)
    \/ CsvRender(r)
    \/ \E pb \in ClassifierOutputs, pr \in ClassifierOutputs : Predict(r, pb, pr)
    \/ PredictRaises(r)
    \/ Graph(r)
    \/ GraphAcquire(r)
    \/ GraphCopy(r)
    \/ GraphRelease(r)
    \/ GraphSort(r)
    \/ GraphRender(r)
    \/ TableAcquire(r)
    \/ TableCopy(r)
    \/ TableRelease(r)
    \/ TableRender(r)
    \/ Sleep(r)

\* A run of the script of a logged-in session started by the Clear button.
ClearRun(r) ==
    \/ Rerun(r)
    \/ check_credentials(r)
    \/ Logout(r, FALSE)
    \/ start_mqtt(r)
    \/ SnapAcquire(r)
    \/ SnapCopy(r)
    \/ SnapLen(r)
    \/ SnapRelease(r)
    \/ Controls(r, "clear")
    \/ ClearAcquire(r)
    \/ ClearHistory(r)
    \/ ClearRelease(r)

\* Both users have logged in, the client is connected and subscribed; the
\* clock is at the last instant of the model, so every row gets one stamp.
InitTwo ==
    /\ data = SensorData
    /\ history = <<>>
    /\ lock = "free"
    /\ clock = ClockStart + 1
    /\ m_pc = "loop"
    /\ msg = None
    /\ payload = None
    /\ now_dt = 0
    /\ field = 0
    /\ last_outcome = "none"
    /\ client = Subscribed
    /\ session = [r \in {Viewer, Clearer} |-> LoggedIn]
    /\ accepted = <<>>
    /\ recorded = 0
    /\ stable = [data |-> SensorData, history |-> <<>>]

\* Messages of the two-session specification: a full frame and a payload
\* that is no JSON.
TwoMessages == {Encoded(FullFrame(1)), BadJson}

NextTwo ==
    \/ \E raw \in TwoMessages : Receive(raw)
    \/ on_message
    \/ Poll(Viewer)
    \/ ClearRun(Clearer)

SpecTwo == InitTwo /\ [][NextTwo]_vars

\* ------------------------------------------------ the progress specification
\* Messages the progress specification lets on_message record: as many as
\* the graph view needs rows.
LiveMsgs == GraphMinRows + 1

ReceiveLive(raw) ==
    /\ data["count"] < LiveMsgs
    /\ Receive(raw)

\* Messages of the progress specification: a full frame, a payload that is
\* no JSON, and a JSON list that raises inside the with block.
LiveMessages ==
    {Encoded(FullFrame(1)), BadJson, Encoded(JArray({"condenser_inlet_temp"}))}

\* The state before anyone has logged in; the clock is at the last instant of
\* the model, so every row gets one stamp.
InitLive ==
    /\ data = SensorData
    /\ history = <<>>
    /\ lock = "free"
    /\ clock = ClockStart + 1
    /\ m_pc = "loop"
    /\ msg = None
    /\ payload = None
    /\ now_dt = 0
    /\ field = 0
    /\ last_outcome = "none"
    /\ client = NoClient
    /\ session = [r \in Sessions |-> FreshLocals]
    /\ accepted = <<>>
    /\ recorded = 0
    /\ stable = [data |-> SensorData, history |-> <<>>]

NextLive ==
    \/ \E rc \in ConnectCodes : on_connect(rc)
    \/ Reconnect
    \/ \E raw \in LiveMessages : ReceiveLive(raw)
    \/ on_message
    \/ \E r \in Sessions : Script(r)

\* A step of a running script: every step but those a user at the login
\* screen takes.
RunStep(r) == session[r].pc # "login" /\ Script(r)

\* with sensor_data.lock (enter), wherever the script has one
ReaderAcquire(r) ==
    \/ SnapAcquire(r)
    \/ ClearAcquire(r)
    \/ CsvAcquire(r)
    \/ GraphAcquire(r)
    \/ TableAcquire(r)

\* Threads are scheduled fairly: a thread that can run does, and a thread
\* that waits for the lock gets it when it is free again and again.  The broker
\* answers a connect.
Fairness ==
    /\ WF_vars(on_message)
    /\ SF_vars(Acquire)
    /\ WF_vars(\E rc \in ConnectCodes : on_connect(rc))
    /\ WF_vars(Reconnect)
    /\ \A r \in Sessions : WF_vars(RunStep(r)) /\ SF_vars(ReaderAcquire(r))

SpecLive == InitLive /\ [][NextLive]_vars /\ Fairness

\* ------------------------------------------------------------------ claims
Min(a, b) == IF a < b THEN a ELSE b

\* on_message is inside its with block
MqttInCriticalSection == lock = MQTT

\* the message in hand decoded to a JSON object
IsObject(raw) == raw.kind = "json" /\ raw.value.t = "dict"

\* the message in hand is a heartbeat: an object with none of the sensor keys
IsHeartbeat(raw) == IsObject(raw) /\ (DOMAIN raw.value.m) \cap SensorKeySet = {}

\* the message in hand did not decode to a key/value map
IsMalformed(raw) == raw.kind \in {"bad_utf8", "bad_json", "json"} /\ ~IsObject(raw)

\* on_message is handling a message
Handling == m_pc # "loop"

\* C1: whenever on_message is outside its critical section, the history holds
\* at most MAX_ROWS rows, and so does every length or copy a session took.
C1_HistoryBounded ==
    /\ ~MqttInCriticalSection => Len(history) <= MAX_ROWS
    /\ \A r \in Sessions :
          /\ session[r].history_len <= MAX_ROWS
          /\ Len(session[r].df) <= MAX_ROWS

\* C1 witness: a row was evicted and a session copied the full history.
C1_Witness ==
    /\ ~MqttInCriticalSection
    /\ Len(accepted) > MAX_ROWS
    /\ Len(history) = MAX_ROWS
    /\ \E r \in Sessions : session[r].pc = "csv_render" /\ Len(session[r].df) = MAX_ROWS

\* C2: after N rows accepted with no clear in between, the history is the
\* last min(N, MAX_ROWS) of them, in acceptance order.
C2_FifoEviction ==
    ~MqttInCriticalSection =>
        LET n == Len(accepted)
            k == Min(n, MAX_ROWS)
        IN /\ Len(history) = k
           /\ \A i \in 1..k : history[i] = accepted[n - k + i]

\* C2 witness: more rows than fit were accepted, the evicted one differing
\* from the newest.
C2_Witness ==
    /\ m_pc = "loop"
    /\ Len(accepted) = MAX_ROWS + 1
    /\ accepted[1] # accepted[Len(accepted)]
    /\ accepted[1] # accepted[2]

\* C3 (as claimed): while on_message holds the lock for a heartbeat frame,
\* the snapshot and the history are as the last whole operation left them.
C3_HeartbeatRejected ==
    (MqttInCriticalSection /\ IsHeartbeat(msg)) =>
        /\ data = stable.data
        /\ history = stable.history

\* C4: no step of on_message on a payload that is no key/value map changes
\* the snapshot or the history; the exception is handled inside on_message,
\* which returns to the network loop without the lock.
C4_MalformedDropped ==
    [][(Handling /\ IsMalformed(msg) /\ m_pc' # m_pc) =>
          /\ data' = data
          /\ history' = history
          /\ m_pc' \in {"compat_water", "compat_condenser", "stamp", "acquire",
                        "set_field", "except", "loop"}
          /\ m_pc = "set_field" => m_pc' = "except" /\ lock' = "free"
          /\ m_pc' = "loop" => (m_pc = "except" /\ lock' # MQTT
                                /\ last_outcome' = "dropped")]_vars

\* C4 witness: the message after a dropped one is being recorded.
C4_Witness ==
    /\ last_outcome = "dropped"
    /\ m_pc = "release"
    /\ data["count"] = recorded
    /\ recorded > 0

\* a value that is no number: null, a nested list or object, a string that
\* is no numeral
NonNumeric(x) == x \in {JNull, JList, JStr(<<"7", "x">>), JStr(<<>>)}

\* what the claims expect recorded for a payload value: the number it
\* carries (as a JSON number, as a numeral string, true as 1), and 0.0 for
\* a value that is no number
Expected(x) ==
    CASE x.t = "num" -> x.v
      [] x = JStr(<<" ", "7">>) -> 7
      [] x = JBool(TRUE) -> 1
      [] NonNumeric(x) -> 0

\* C5: when on_message has recorded a JSON object: a legacy
\* water_outlet_temp number without the canonical key is recorded as
\* expansion_valve_outlet_temp; the canonical key, when present, is the one
\* recorded; and an object without condenser_inlet_temp is recorded with 0.
\* No JSON object is dropped.
C5_LegacyAliasing ==
    /\ (m_pc = "except") => ~IsObject(msg)
    /\ (m_pc = "release" /\ IsObject(msg)) =>
        LET m == msg.value.m
            row == history[Len(history)]
            exp == "expansion_valve_outlet_temp"
            cond == "condenser_inlet_temp"
        IN /\ ("water_outlet_temp" \in DOMAIN m /\ exp \notin DOMAIN m) =>
                 /\ data[exp] = Expected(m["water_outlet_temp"])
                 /\ row[HistoryColumn[exp]] = Expected(m["water_outlet_temp"])
           /\ exp \in DOMAIN m =>
                 /\ data[exp] = Expected(m[exp])
                 /\ row[HistoryColumn[exp]] = Expected(m[exp])
           /\ cond \notin DOMAIN m =>
                 /\ data[cond] = 0
                 /\ row[HistoryColumn[cond]] = 0
                 /\ data["count"] = 1

\* C5 witness: recorded with both keys, and the canonical value kept.
C5_Witness ==
    /\ m_pc = "release"
    /\ IsObject(msg)
    /\ DOMAIN msg.value.m = {"water_outlet_temp", "expansion_valve_outlet_temp"}
    /\ msg.value.m["water_outlet_temp"] = JNum(5)
    /\ msg.value.m["expansion_valve_outlet_temp"] = JStr(<<" ", "7">>)
    /\ data["expansion_valve_outlet_temp"] = 7

C7_MonotonicCount ==
    /\ data["count"] = 0
    /\ [](~MqttInCriticalSection => data["count"] = recorded)
    /\ [][IF m_pc = "inc_count" /\ m_pc' = "append"
          THEN data'["count"] = data["count"] + 1
          ELSE data'["count"] = data["count"]]_vars

\* C7 witness: a clear happened between recorded messages.
C7_Witness ==
    /\ ~MqttInCriticalSection
    /\ data["count"] = MaxMsgs
    /\ Len(accepted) < data["count"]
    /\ Len(accepted) > 0

C9_ClearFrame ==
    /\ \A r \in Sessions :
          /\ session[r].pc \in {"clear", "clear_release"} => data = stable.data
          /\ session[r].pc = "clear_release" => history = <<>>
    /\ (~MqttInCriticalSection /\ Len(accepted) = 1) => history = accepted

\* C9 witness: rows were cleared and one message recorded since.
C9_Witness ==
    /\ m_pc = "loop"
    /\ data["count"] > 1
    /\ Len(accepted) = 1
    /\ Len(history) = 1
    /\ \A r \in Sessions : session[r].pc = "rerun"

\* C10: when the predictions block has run without an error, a component is
\* Normal iff its classifier returned 0 and Fault otherwise, faults is the
\* number of components reported Fault, and the all-normal banner shows iff
\* faults is 0.
C10_FaultAggregation ==
    \A r \in Sessions :
        (session[r].pc = "graph" /\ session[r].banner # "error") =>
            LET l == session[r]
                reported == {c \in {"bearings", "radiator"} :
                               (IF c = "bearings" THEN l.bearing_status
                                ELSE l.radiator_status) = "Fault"}
            IN /\ l.bearing_status = (IF l.p_bearings = 0 THEN "Normal" ELSE "Fault")
               /\ l.radiator_status = (IF l.p_radiator = 0 THEN "Normal" ELSE "Fault")
               /\ l.faults = Cardinality(reported)
               /\ (l.banner = "success") <=> (l.faults = 0)
               /\ l.banner \in {"success", "warning"}

\* C10 witness: one classifier reported a fault, the other none.
C10_Witness ==
    \E r \in Sessions :
        /\ session[r].pc = "graph"
        /\ session[r].p_bearings = 1
        /\ session[r].p_radiator = 0
        /\ session[r].faults = 1
        /\ session[r].banner = "warning"

\* Positions at which the network thread writes to the log: the print of
\* line 188 and the print of line 191.
IngestIO == {"print", "except"}

\* Positions at which a run of the script renders to the page, offers a
\* download or sleeps.
ReaderIO ==
    {"login", "controls", "csv_render", "predict", "graph", "graph_render",
     "table_render", "sleep"}

\* C11: no operation holds the store lock across an I/O call: whenever the
\* ingestion callback or a reader is at a log, network or display call, that
\* thread does not hold sensor_data.lock.
C11_NoLockAcrossIO ==
    /\ m_pc \in IngestIO => lock # MQTT
    /\ \A r \in Sessions : session[r].pc \in ReaderIO => lock # r

\* The readers' half of C11 alone.
ReadersReleaseBeforeIO ==
    \A r \in Sessions : session[r].pc \in ReaderIO => lock # r

\* Positions of on_message inside its with block.
IngestLocked ==
    {"set_field", "set_last_update", "inc_count", "append", "cap", "print", "release"}

\* Positions of the script inside one of its with blocks.
ReaderLocked ==
    {"snap_copy", "snap_len", "snap_release", "clear", "clear_release",
     "csv_copy", "csv_release", "graph_copy", "graph_release",
     "table_copy", "table_release"}

\* Positions of the script at the entry of a with block.
ReaderWaiting ==
    {"snap_acquire", "clear_acquire", "csv_acquire", "graph_acquire", "table_acquire"}

\* A thread holds the lock exactly inside a with block (so the lock is released
\* on every way out, the raising one included), and no thread asks for the
\* lock it holds.
LockDiscipline ==
    /\ lock = MQTT <=> m_pc \in IngestLocked
    /\ \A r \in Sessions : lock = r <=> session[r].pc \in ReaderLocked
    /\ m_pc = "acquire" => lock # MQTT
    /\ \A r \in Sessions : session[r].pc \in ReaderWaiting => lock # r

PredictionError(r) == session[r].pc = "graph" /\ session[r].banner = "error"

C14_TimestampsOrdered ==
    /\ \A i, j \in 1..Len(history) :
          i < j => TsLeq(history[i]["Timestamp"], history[j]["Timestamp"])
    /\ \A r \in Sessions :
          session[r].pc = "graph_sort" => sort_values(session[r].df) = session[r].df

\* C14 witness: the history is full, its rows stamped in different seconds,
\* the later one with the smaller sub-second part.
C14_Witness ==
    /\ Len(history) = MAX_ROWS
    /\ history[1]["Timestamp"][1] < history[MAX_ROWS]["Timestamp"][1]
    /\ history[1]["Timestamp"][2] > history[MAX_ROWS]["Timestamp"][2]
    /\ lock = "free"

\* The eight sensor values of a history row, keyed as the snapshot keys them.
RowValues(row) == [k \in SensorKeySet |-> row[HistoryColumn[k]]]

\* The eight sensor values of the snapshot.
SnapshotValues(d) == [k \in SensorKeySet |-> d[k]]

\* C16: in every state observable outside the critical section, the snapshot
\* is the most recently accepted reading: whenever history is non-empty, the
\* eight sensor values of its newest entry equal the eight sensor values of
\* the snapshot, and len(history) <= count.
C16_SnapshotIsNewest ==
    lock # MQTT =>
        /\ history # <<>> =>
              RowValues(history[Len(history)]) = SnapshotValues(data)
        /\ Len(history) <= data["count"]

\* C16 witness: the history is full, its newest row differs from the row
\* before it, and more messages were counted than rows are held.
C16_Witness ==
    /\ lock = "free"
    /\ Len(history) = MAX_ROWS
    /\ RowValues(history[MAX_ROWS]) # RowValues(history[1])
    /\ data["count"] > MAX_ROWS

\* Positions of the script before line 82: the start of a run, the check of
\* the flag and the login screen.
BeforeGate == {"rerun", "check_credentials", "login"}

\* C18: login gating: a session is past the gate (reads the snapshot, copies
\* or clears the history, runs the classifiers) only while its authenticated
\* flag is True; the flag becomes True only when the Login button is pressed
\* with the configured user name and password filled in; Logout sets the flag
\* to False, and a run that finds the flag other than True stops at the login
\* screen.
C18_LoginGating ==
    /\ [](\A r \in Sessions :
            session[r].pc \notin BeforeGate => session[r].authenticated = "True")
    /\ [][\A r \in Sessions :
            /\ (session[r].authenticated # "True" /\ session'[r].authenticated = "True")
                  => /\ session[r].pc = "login"
                     /\ session[r].username = "admin"
                     /\ session[r].password = "Admin123!"
            /\ (session[r].pc = "logout" /\ session'[r].pc = "rerun")
                  => session'[r].authenticated = "False"
            /\ (session[r].pc = "check_credentials" /\ session[r].authenticated # "True"
                  /\ session'[r].pc # "check_credentials")
                  => session'[r].pc = "login"
            /\ (session[r].pc = "login" /\ session'[r].pc # "login")
                  => session'[r].pc = "rerun"]_vars

\* C18 witness: a session that was logged in (start_mqtt has run) and logged
\* out is back at the login screen after a Login with a wrong password.
C18_Witness ==
    \E r \in Sessions :
        /\ session[r].pc = "login"
        /\ session[r].authenticated = "False"
        /\ session[r].username = "admin"
        /\ session[r].password = "admin"
        /\ client.state # "none"
        /\ data["count"] > 0

\* C15: subscription lifecycle: the service subscribes on every successful
\* connect, the first and every later one, and at no other step; a connect
\* answered with a failure code subscribes to nothing and leaves the service
\* unsubscribed; on_message is called, and a message recorded, only after a
\* successful connect.
C15_SubscriptionLifecycle ==
    /\ [](client.subscribed <=> client.state = "connected")
    /\ [][(client'.subscribed /\ ~client.subscribed)
            <=> (client.state = "connecting" /\ client'.state = "connected")]_vars
    /\ [][(client.state = "connecting" /\ client'.state = "refused")
            => (~client.subscribed /\ ~client'.subscribed)]_vars
    /\ [](m_pc # "loop" => client.subscribed)
    /\ [](recorded > 0 => client.connected_once)

\* C15 witness: after a successful connect and a recorded message the
\* connection broke, and the reconnect was refused.
C15_Witness ==
    /\ client.state = "refused"
    /\ client.connected_once
    /\ ~client.subscribed
    /\ recorded > 0

\* Positions of the script right after a history copy, still inside the with
\* block of that copy.
CopyTaken == {"csv_release", "graph_release", "table_release"}

====
